---- MODULE Spec2Model ----
(***************************************************************************)
(* checkEntitySolvency (src/src/util.ts): the three passes of the solvency *)
(* analysis as a state machine.                                            *)
(*                                                                         *)
(*   first pass   one step per entity of the input map, in insertion order *)
(*   second pass  propagateShortfalls: graph, cycle check, then one step   *)
(*                per entity in a topological order                        *)
(*   third pass   final classification and the returned SolvencyResult     *)
(*                                                                         *)
(* Numbers.  Decimal values and JS numbers are modelled as exact rationals *)
(* [n, d] in lowest terms; the rounding of Decimal (20 significant digits) *)
(* and of IEEE doubles is not modelled.  A JS Map is a sequence of [k, v]  *)
(* pairs in insertion order; a JS array is a sequence.                     *)
(***************************************************************************)
EXTENDS Integers, Sequences, FiniteSets, TLC

VARIABLES
    entities,           \* input: the values of the entities Map, in insertion order
    priceMap,           \* input: coin type -> USD price (a partial function)
    pc,                 \* position in checkEntitySolvency
    i,                  \* first pass: number of entities already processed
    insolventEntities,  \* first pass: the local insolventEntities array
    entityData,         \* Map entity id -> EntitySolvencyData
    processingOrder,    \* second pass: the entities visited so far, in order
    result,             \* <<>> until the function returns, then <<SolvencyResult>>
    error,              \* <<>> until the function throws, then <<message kind>>
    allCoinTypes        \* CLI action: the coin types whose prices are fetched

vars == <<entities, priceMap, pc, i, insolventEntities, entityData,
          processingOrder, result, error, allCoinTypes>>

-----------------------------------------------------------------------------
(* Bounds of the model *)

\* Largest raw holding or obligation amount drawn by the parametric input families.
MaxAmt == 2

-----------------------------------------------------------------------------
(* Exact rational arithmetic standing for Decimal and number *)

RECURSIVE Gcd(_, _)
Gcd(a, b) == IF b = 0 THEN a ELSE Gcd(b, a % b)

Abs(a) == IF a < 0 THEN -a ELSE a

\* n / d in lowest terms, d > 0
Rat(n, d) == LET g == Gcd(Abs(n), d) IN [n |-> n \div g, d |-> d \div g]

Zero == [n |-> 0, d |-> 1]

Plus(a, b) == Rat(a.n * b.d + b.n * a.d, a.d * b.d)
Minus(a, b) == Rat(a.n * b.d - b.n * a.d, a.d * b.d)
Mul(a, b) == Rat(a.n * b.n, a.d * b.d)
\* b is never zero where the code divides (prices are positive)
Div(a, b) == IF b.n > 0 THEN Rat(a.n * b.d, a.d * b.n) ELSE Rat(-(a.n * b.d), a.d * (-b.n))
Gt(a, b) == a.n * b.d > b.n * a.d
Gte(a, b) == a.n * b.d >= b.n * a.d
DecimalMin(a, b) == IF Gt(a, b) THEN b ELSE a
DecimalMax(a, b) == IF Gt(a, b) THEN a ELSE b

\* left fold of a sequence (Array.prototype.reduce, for ... of)
FoldLeft(Op(_, _), base, s) ==
    LET RECURSIVE F(_)
        F(k) == IF k = 0 THEN base ELSE Op(F(k - 1), s[k])
    IN F(Len(s))

SumRat(s) == FoldLeft(Plus, Zero, s)

-----------------------------------------------------------------------------
(* JS Map: insertion-ordered sequence of [k, v] *)

MapHas(m, key) == \E j \in 1..Len(m) : m[j].k = key
MapIdx(m, key) == CHOOSE j \in 1..Len(m) : m[j].k = key
MapGet(m, key, default) == IF MapHas(m, key) THEN m[MapIdx(m, key)].v ELSE default
MapSet(m, key, val) ==
    IF MapHas(m, key) THEN [m EXCEPT ![MapIdx(m, key)].v = val]
    ELSE Append(m, [k |-> key, v |-> val])
MapDelete(m, key) == SelectSeq(m, LAMBDA p : p.k # key)
MapKeys(m) == {m[j].k : j \in 1..Len(m)}
MapValues(m) == [j \in 1..Len(m) |-> m[j].v]

-----------------------------------------------------------------------------
(* Coins, amounts, assets *)

USDC == "USDC"
SUI == "SUI"
DEEP == "DEEP"
Coins == {USDC, SUI, DEEP}

\* CoinInfo.decimals of the coins of the model
Decimals == [c \in Coins |-> IF c = SUI THEN 1 ELSE 0]

RECURSIVE Pow10(_)
Pow10(k) == IF k = 0 THEN 1 ELSE 10 * Pow10(k - 1)

\* Amount.toNumber() / Amount.toDecimal(): raw int scaled by the coin's decimals
AmountToNumber(int, decimals) == Rat(int, Pow10(decimals))

CoinAsset(c, amt) == [kind |-> "coin", coin |-> c, amount |-> amt]
LPAsset(cA, cB, amtA, amtB) ==
    [kind |-> "lp", coinA |-> cA, coinB |-> cB, amountA |-> amtA, amountB |-> amtB]
Obligation(f, t, a) == [from |-> f, to |-> t, asset |-> a]
Entity(id, h, o) == [id |-> id, holdings |-> h, obligations |-> o]

EntityIds == {entities[j].id : j \in 1..Len(entities)}
\* entities.get(id)
EntityGet(id) == entities[CHOOSE j \in 1..Len(entities) : entities[j].id = id]

-----------------------------------------------------------------------------
(* First pass, per entity *)

\* one holding or incoming obligation added to the totalAssets map
AddAsset(totalAssets, asset) ==
    IF asset.kind = "coin"
    THEN MapSet(totalAssets, asset.coin,
                MapGet(totalAssets, asset.coin, 0) + asset.amount)
    ELSE LET prevA == MapGet(totalAssets, asset.coinA, 0)
             prevB == MapGet(totalAssets, asset.coinB, 0)
         IN MapSet(MapSet(totalAssets, asset.coinA, prevA + asset.amountA),
                   asset.coinB, prevB + asset.amountB)

\* the assets of the obligations, of every entity of the map, whose creditor is id
IncomingAssets(id) ==
    FoldLeft(LAMBDA acc, other :
                 acc \o [j \in 1..Len(SelectSeq(other.obligations, LAMBDA ob : ob.to = id))
                           |-> SelectSeq(other.obligations, LAMBDA ob : ob.to = id)[j].asset],
             <<>>, entities)

\* totalAssets: Map coin type -> raw amount (holdings + incoming obligations)
TotalAssets(entity) ==
    FoldLeft(AddAsset, FoldLeft(AddAsset, <<>>, entity.holdings), IncomingAssets(entity.id))

\* the flattening loop throws on the first outgoing obligation with an unpriced coin
ObligationPriceMissing(entity) ==
    \E j \in 1..Len(entity.obligations) :
        LET a == entity.obligations[j].asset
        IN IF a.kind = "coin" THEN a.coin \notin DOMAIN priceMap
           ELSE a.coinA \notin DOMAIN priceMap \/ a.coinB \notin DOMAIN priceMap

\* the totals loop throws on the first coin of totalAssets without a price
AssetPriceMissing(entity) ==
    \E c \in MapKeys(TotalAssets(entity)) : c \notin DOMAIN priceMap

ObligationDetail(t, c, amt) ==
    [to |-> t, coinType |-> c, amount |-> amt,
     usdValue |-> Mul(AmountToNumber(amt, Decimals[c]), priceMap[c])]

\* variant: a paired obligation contributes its first side only
ObligationsFirstSideOnly(entity) ==
    FoldLeft(LAMBDA acc, ob :
                 IF ob.asset.kind = "coin"
                 THEN Append(acc, ObligationDetail(ob.to, ob.asset.coin, ob.asset.amount))
                 ELSE Append(acc, ObligationDetail(ob.to, ob.asset.coinA, ob.asset.amountA)),
             <<>>, entity.obligations)

\* obligations: the outgoing obligations flattened into per-coin lines
Obligations(entity) ==
    FoldLeft(LAMBDA acc, ob :
                 IF ob.asset.kind = "coin"
                 THEN Append(acc, ObligationDetail(ob.to, ob.asset.coin, ob.asset.amount))
                 ELSE acc \o <<ObligationDetail(ob.to, ob.asset.coinA, ob.asset.amountA),
                               ObligationDetail(ob.to, ob.asset.coinB, ob.asset.amountB)>>,
             <<>>, entity.obligations)

TotalAssetsUsd(entity) ==
    FoldLeft(LAMBDA sum, p : Plus(sum, Mul(AmountToNumber(p.v, Decimals[p.k]), priceMap[p.k])),
             Zero, TotalAssets(entity))

TotalLiabilitiesUsd(entity) ==
    FoldLeft(LAMBDA sum, ob : Plus(sum, ob.usdValue), Zero, Obligations(entity))

\* obligationsByCoin: Map coin type -> the lines of that coin type
ObligationsByCoin(obligations) ==
    FoldLeft(LAMBDA acc, ob :
                 IF MapHas(acc, ob.coinType)
                 THEN MapSet(acc, ob.coinType, Append(MapGet(acc, ob.coinType, <<>>), ob))
                 ELSE MapSet(acc, ob.coinType, <<ob>>),
             <<>>, obligations)

\* one iteration of the direct same-coin netting loop
NettingStep(st, entry) ==
    LET coinType == entry.k
        available == MapGet(st.remainingByCoin, coinType, 0)
        totalObInt == FoldLeft(LAMBDA sum, o : sum + o.amount, 0, entry.v)
    IN IF available >= totalObInt
       THEN LET rest == available - totalObInt
            IN [st EXCEPT !.remainingByCoin =
                    IF rest > 0 THEN MapSet(st.remainingByCoin, coinType, rest)
                    ELSE MapDelete(st.remainingByCoin, coinType)]
       ELSE LET short == totalObInt - available
                usdShort == Mul(AmountToNumber(short, Decimals[coinType]), priceMap[coinType])
            IN [remainingByCoin |-> MapDelete(st.remainingByCoin, coinType),
                remainingLiabilitiesUsd |-> Plus(st.remainingLiabilitiesUsd, usdShort),
                shortfallUsdByCoin |-> MapSet(st.shortfallUsdByCoin, coinType, usdShort)]

\* Step 1: remainingByCoin, remainingLiabilitiesUsd and shortfallUsdByCoin after netting
DirectNetting(entity) ==
    FoldLeft(NettingStep,
             [remainingByCoin |-> TotalAssets(entity),
              remainingLiabilitiesUsd |-> Zero,
              shortfallUsdByCoin |-> <<>>],
             ObligationsByCoin(Obligations(entity)))

RemainingAssetsUsd(remainingByCoin) ==
    FoldLeft(LAMBDA sum, p : Plus(sum, Mul(AmountToNumber(p.v, Decimals[p.k]), priceMap[p.k])),
             Zero, remainingByCoin)

\* the guard of Step 2
SwapAttempted(net) == Gt(net.remainingLiabilitiesUsd, Zero) /\ Len(net.remainingByCoin) > 0

\* variant: the swap covers every remaining liability, whatever the entity has left
SwapCoversAllLiabilities(net) ==
    IF SwapAttempted(net) THEN net.remainingLiabilitiesUsd ELSE Zero

SwapUsedUsd(net) ==
    IF SwapAttempted(net)
    THEN DecimalMin(RemainingAssetsUsd(net.remainingByCoin), net.remainingLiabilitiesUsd)
    ELSE Zero

TotalShortfallUsd(shortfallUsdByCoin) == SumRat(MapValues(shortfallUsdByCoin))

\* variant: the applied USD amount is split evenly among the deficit coin types
SwappedRepaymentsEven(net) ==
    IF SwapAttempted(net) /\ Gt(SwapUsedUsd(net), Zero) /\ Len(net.shortfallUsdByCoin) > 0
    THEN [j \in 1..Len(net.shortfallUsdByCoin) |->
            LET p == net.shortfallUsdByCoin[j]
                allocatedUsd == Div(SwapUsedUsd(net), Rat(Len(net.shortfallUsdByCoin), 1))
            IN [coinType |-> p.k, amount |-> Div(allocatedUsd, priceMap[p.k])]]
    ELSE <<>>

SwappedRepaymentsList(net) ==
    IF SwapAttempted(net) /\ Gt(SwapUsedUsd(net), Zero) /\ Len(net.shortfallUsdByCoin) > 0
    THEN [j \in 1..Len(net.shortfallUsdByCoin) |->
            LET p == net.shortfallUsdByCoin[j]
                proportion == Div(p.v, TotalShortfallUsd(net.shortfallUsdByCoin))
                allocatedUsd == Mul(SwapUsedUsd(net), proportion)
            IN [coinType |-> p.k, amount |-> Div(allocatedUsd, priceMap[p.k])]]
    ELSE <<>>

\* variant: the swap coverage is not subtracted from the remaining liabilities
FinalShortfallUsdNoSwap(net) == DecimalMax(net.remainingLiabilitiesUsd, Zero)

FinalShortfallUsd(net) ==
    DecimalMax(IF SwapAttempted(net)
               THEN Minus(net.remainingLiabilitiesUsd, SwapUsedUsd(net))
               ELSE net.remainingLiabilitiesUsd,
               Zero)

TotalAssetsList(entity) ==
    [j \in 1..Len(TotalAssets(entity)) |->
        [coinType |-> TotalAssets(entity)[j].k,
         amount |-> AmountToNumber(TotalAssets(entity)[j].v, Decimals[TotalAssets(entity)[j].k])]]

TotalLiabilitiesList(entity) ==
    LET acc == FoldLeft(LAMBDA m, ob :
                           MapSet(m, ob.coinType,
                                  Plus(MapGet(m, ob.coinType, Zero),
                                       AmountToNumber(ob.amount, Decimals[ob.coinType]))),
                        <<>>, Obligations(entity))
    IN [j \in 1..Len(acc) |-> [coinType |-> acc[j].k, amount |-> acc[j].v]]

\* variant: the per-coin deficits are kept whole, not scaled to the residual shortfall
ShortfallsByCoinUnscaled(net) ==
    IF Gt(FinalShortfallUsd(net), Zero) /\ Len(net.shortfallUsdByCoin) > 0
    THEN FoldLeft(LAMBDA m, p : MapSet(m, p.k, Div(p.v, priceMap[p.k])),
                  <<>>, net.shortfallUsdByCoin)
    ELSE <<>>

\* shortfallsByCoinMap: the per-coin deficits scaled to the residual USD shortfall
ShortfallsByCoinMap(net) ==
    IF Gt(FinalShortfallUsd(net), Zero) /\ Len(net.shortfallUsdByCoin) > 0
    THEN FoldLeft(LAMBDA m, p :
                     LET proportion == Div(p.v, TotalShortfallUsd(net.shortfallUsdByCoin))
                         remainingShortfallUsd == Mul(FinalShortfallUsd(net), proportion)
                         remainingShortfallAmount == Div(remainingShortfallUsd, priceMap[p.k])
                     IN IF Gt(remainingShortfallAmount, Zero)
                        THEN MapSet(m, p.k, remainingShortfallAmount)
                        ELSE m,
                  <<>>, net.shortfallUsdByCoin)
    ELSE <<>>

\* the EntitySolvencyData stored for the entity at the end of its iteration
FirstPassData(entity) ==
    LET net == DirectNetting(entity)
    IN [entityId |-> entity.id,
        totalAssets |-> TotalAssetsList(entity),
        totalLiabilities |-> TotalLiabilitiesList(entity),
        totalAssetsUsd |-> TotalAssetsUsd(entity),
        totalLiabilitiesUsd |-> TotalLiabilitiesUsd(entity),
        shortfallUsd |-> FinalShortfallUsd(net),
        swapUsedUsd |-> SwapUsedUsd(net),
        swappedRepayments |-> SwappedRepaymentsList(net),
        shortfallsByCoin |-> ShortfallsByCoinMap(net),
        shortfallsReceived |-> <<>>,
        shortfallsCaused |-> <<>>]

\* the message of the error the first pass throws for the entity, <<>> if none
FirstPassError(entity) ==
    IF ObligationPriceMissing(entity)
    THEN LET bad(j) == LET a == entity.obligations[j].asset
                       IN IF a.kind = "coin" THEN a.coin \notin DOMAIN priceMap
                          ELSE a.coinA \notin DOMAIN priceMap \/ a.coinB \notin DOMAIN priceMap
             first == CHOOSE j \in 1..Len(entity.obligations) :
                          bad(j) /\ \A k \in 1..(j - 1) : ~bad(k)
         IN IF entity.obligations[first].asset.kind = "coin"
            THEN <<"Price not found for coin type">>
            ELSE <<"Price not found for LP asset coins">>
    ELSE IF AssetPriceMissing(entity) THEN <<"Price not found for coin type">>
    ELSE <<>>

-----------------------------------------------------------------------------
(* Second pass: propagateShortfalls and propagateEntityShortfalls *)

\* variant: an edge is added for every obligation between two nodes, hasEdge not consulted
GraphEdgesMulti ==
    FoldLeft(LAMBDA acc, entity :
                 FoldLeft(LAMBDA es, obligation :
                              IF entity.id \in EntityIds /\ obligation.to \in EntityIds
                              THEN Append(es, <<entity.id, obligation.to>>)
                              ELSE es,
                          acc, entity.obligations),
             <<>>, entities)

\* the addEdge calls of the graph construction, in order
GraphEdges ==
    FoldLeft(LAMBDA acc, entity :
                 FoldLeft(LAMBDA es, obligation :
                              IF entity.id \in EntityIds /\ obligation.to \in EntityIds
                              THEN IF \E k \in 1..Len(es) : es[k] = <<entity.id, obligation.to>>
                                   THEN es
                                   ELSE Append(es, <<entity.id, obligation.to>>)
                              ELSE es,
                          acc, entity.obligations),
             <<>>, entities)

\* the edges of the DirectedGraph: debtor -> creditor, both in the entity set
Edges == {GraphEdges[k] : k \in 1..Len(GraphEdges)}

Successors(S) == {e[2] : e \in {d \in Edges : d[1] \in S}}

RECURSIVE ReachableIn(_, _)
ReachableIn(S, steps) ==
    IF steps = 0 THEN {} ELSE Successors(S) \cup ReachableIn(Successors(S), steps - 1)

\* variant: only loops of one or two edges are detected
HasCycleShort == \E n \in EntityIds : n \in Successors({n}) \cup Successors(Successors({n}))

\* hasCycle(graph): some node reaches itself along one or more edges
HasCycle == \E n \in EntityIds : n \in ReachableIn({n}, Cardinality(EntityIds))

\* one obligation amount added to obligationsByCreditor
AddCreditorObligation(m, creditorId, coinType, amount) ==
    LET withCreditor == IF MapHas(m, creditorId) THEN m ELSE MapSet(m, creditorId, <<>>)
        creditorObligations == MapGet(withCreditor, creditorId, <<>>)
    IN MapSet(withCreditor, creditorId,
              MapSet(creditorObligations, coinType,
                     Plus(MapGet(creditorObligations, coinType, Zero), amount)))

\* obligationsByCreditor: Map creditor id -> Map coin type -> amount owed
ObligationsByCreditor(entity) ==
    FoldLeft(LAMBDA m, ob :
                 IF ob.asset.kind = "coin"
                 THEN AddCreditorObligation(m, ob.to, ob.asset.coin,
                          AmountToNumber(ob.asset.amount, Decimals[ob.asset.coin]))
                 ELSE AddCreditorObligation(
                          AddCreditorObligation(m, ob.to, ob.asset.coinA,
                              AmountToNumber(ob.asset.amountA, Decimals[ob.asset.coinA])),
                          ob.to, ob.asset.coinB,
                          AmountToNumber(ob.asset.amountB, Decimals[ob.asset.coinB])),
             <<>>, entity.obligations)

TotalObligationsForCoin(obligationsByCreditor, coinType) ==
    FoldLeft(LAMBDA sum, p : Plus(sum, MapGet(p.v, coinType, Zero)), Zero, obligationsByCreditor)

ShortfallDetail(coinType, amount, usdValue, causedBy) ==
    [coinType |-> coinType, amount |-> amount, usdValue |-> usdValue, causedBy |-> causedBy]

\* variant: every allocation is pushed as a new entry
RecordShortfallAppend(list, owesTo, coinType, amount, usdValue, causedBy) ==
    Append(list, [owesTo |-> owesTo,
                  shortfalls |-> <<ShortfallDetail(coinType, amount, usdValue, causedBy)>>,
                  totalUsdValue |-> usdValue])

\* variant: the total of an existing entry is left as it was when a detail is added
RecordShortfallStaleTotal(list, owesTo, coinType, amount, usdValue, causedBy) ==
    IF \E j \in 1..Len(list) : list[j].owesTo = owesTo
    THEN LET j == CHOOSE j \in 1..Len(list) : list[j].owesTo = owesTo
         IN [list EXCEPT ![j].shortfalls =
                Append(@, ShortfallDetail(coinType, amount, usdValue, causedBy))]
    ELSE Append(list, [owesTo |-> owesTo,
                       shortfalls |-> <<ShortfallDetail(coinType, amount, usdValue, causedBy)>>,
                       totalUsdValue |-> usdValue])

\* find-or-push into a shortfallsReceived / shortfallsCaused array
RecordShortfall(list, owesTo, coinType, amount, usdValue, causedBy) ==
    IF \E j \in 1..Len(list) : list[j].owesTo = owesTo
    THEN LET j == CHOOSE j \in 1..Len(list) :
                      list[j].owesTo = owesTo /\ \A k \in 1..(j - 1) : list[k].owesTo # owesTo
             existing == list[j]
             details == existing.shortfalls
             newDetails ==
                 IF \E d \in 1..Len(details) : details[d].coinType = coinType
                 THEN LET d == CHOOSE d \in 1..Len(details) :
                                   details[d].coinType = coinType
                                   /\ \A k \in 1..(d - 1) : details[k].coinType # coinType
                      IN [details EXCEPT ![d].amount = Plus(@, amount),
                                         ![d].usdValue = Plus(@, usdValue)]
                 ELSE Append(details, ShortfallDetail(coinType, amount, usdValue, causedBy))
         IN [list EXCEPT ![j] = [owesTo |-> existing.owesTo,
                                 shortfalls |-> newDetails,
                                 totalUsdValue |-> Plus(existing.totalUsdValue, usdValue)]]
    ELSE Append(list, [owesTo |-> owesTo,
                       shortfalls |-> <<ShortfallDetail(coinType, amount, usdValue, causedBy)>>,
                       totalUsdValue |-> usdValue])

\* variant: nothing is ever added to the creditor's map
ForwardNever(creditorData, coinType, creditorShortfall) == creditorData

\* variant: the creditor's map grows whether or not it has outgoing obligations
ForwardAlways(creditorData, coinType, creditorShortfall) ==
    [creditorData EXCEPT !.shortfallsByCoin =
        MapSet(@, coinType, Plus(MapGet(@, coinType, Zero), creditorShortfall))]

\* variant: the allocated amount replaces the creditor's entry instead of adding to it
ForwardOverwrite(creditorData, coinType, creditorShortfall) ==
    IF Len(creditorData.totalLiabilities) > 0
    THEN [creditorData EXCEPT !.shortfallsByCoin = MapSet(@, coinType, creditorShortfall)]
    ELSE creditorData

\* variant: the creditor's shortfallUsd is raised by the value of what it received
ForwardAndRevalue(creditorData, coinType, creditorShortfall) ==
    IF Len(creditorData.totalLiabilities) > 0
    THEN [creditorData EXCEPT
            !.shortfallsByCoin =
                MapSet(@, coinType, Plus(MapGet(@, coinType, Zero), creditorShortfall)),
            !.shortfallUsd = Plus(@, Mul(creditorShortfall, priceMap[coinType]))]
    ELSE creditorData

\* creditor's shortfallsByCoin grows only if the creditor has outgoing obligations
ForwardToCreditor(creditorData, coinType, creditorShortfall) ==
    IF Len(creditorData.totalLiabilities) > 0
    THEN [creditorData EXCEPT !.shortfallsByCoin =
            MapSet(@, coinType, Plus(MapGet(@, coinType, Zero), creditorShortfall))]
    ELSE creditorData

\* variant: every creditor is allocated the whole shortfall instead of its share
DistributeWholeToCreditor(ed, entityId, coinType, shortfallAmount, shortfallUsdValue, totalObligationsForCoin, creditor) ==
    LET creditorId == creditor.k
        creditorObligationAmount == MapGet(creditor.v, coinType, Zero)
    IN IF ~Gt(creditorObligationAmount, Zero) THEN ed
       ELSE IF ~MapHas(ed, creditorId) THEN ed
       ELSE LET ed1 == MapSet(ed, creditorId,
                           [MapGet(ed, creditorId, <<>>) EXCEPT !.shortfallsReceived =
                               RecordShortfall(@, entityId, coinType, shortfallAmount,
                                               shortfallUsdValue, entityId)])
                ed2 == MapSet(ed1, entityId,
                           [MapGet(ed1, entityId, <<>>) EXCEPT !.shortfallsCaused =
                               RecordShortfall(@, creditorId, coinType, shortfallAmount,
                                               shortfallUsdValue, entityId)])
            IN MapSet(ed2, creditorId,
                      ForwardToCreditor(MapGet(ed2, creditorId, <<>>), coinType,
                                        shortfallAmount))

\* variant: the debtor's caused entry records the whole shortfall, the creditor's its share
DistributeCausedWhole(ed, entityId, coinType, shortfallAmount, shortfallUsdValue, totalObligationsForCoin, creditor) ==
    LET creditorId == creditor.k
        creditorObligationAmount == MapGet(creditor.v, coinType, Zero)
        proportion == Div(creditorObligationAmount, totalObligationsForCoin)
        creditorShortfall == Mul(shortfallAmount, proportion)
        creditorShortfallUsd == Mul(shortfallUsdValue, proportion)
    IN IF ~Gt(creditorObligationAmount, Zero) THEN ed
       ELSE IF ~MapHas(ed, creditorId) THEN ed
       ELSE LET ed1 == MapSet(ed, creditorId,
                           [MapGet(ed, creditorId, <<>>) EXCEPT !.shortfallsReceived =
                               RecordShortfall(@, entityId, coinType, creditorShortfall,
                                               creditorShortfallUsd, entityId)])
                ed2 == MapSet(ed1, entityId,
                           [MapGet(ed1, entityId, <<>>) EXCEPT !.shortfallsCaused =
                               RecordShortfall(@, creditorId, coinType, shortfallAmount,
                                               shortfallUsdValue, entityId)])
            IN MapSet(ed2, creditorId,
                      ForwardToCreditor(MapGet(ed2, creditorId, <<>>), coinType,
                                        creditorShortfall))

\* the body of the creditor loop for one coin type and one creditor
DistributeToCreditor(ed, entityId, coinType, shortfallAmount, shortfallUsdValue, totalObligationsForCoin, creditor) ==
    LET creditorId == creditor.k
        creditorObligationAmount == MapGet(creditor.v, coinType, Zero)
        proportion == Div(creditorObligationAmount, totalObligationsForCoin)
        creditorShortfall == Mul(shortfallAmount, proportion)
        creditorShortfallUsd == Mul(shortfallUsdValue, proportion)
    IN IF ~Gt(creditorObligationAmount, Zero) THEN ed
       ELSE IF ~MapHas(ed, creditorId) THEN ed
       ELSE LET ed1 == MapSet(ed, creditorId,
                           [MapGet(ed, creditorId, <<>>) EXCEPT !.shortfallsReceived =
                               RecordShortfall(@, entityId, coinType, creditorShortfall,
                                               creditorShortfallUsd, entityId)])
                ed2 == MapSet(ed1, entityId,
                           [MapGet(ed1, entityId, <<>>) EXCEPT !.shortfallsCaused =
                               RecordShortfall(@, creditorId, coinType, creditorShortfall,
                                               creditorShortfallUsd, entityId)])
            IN MapSet(ed2, creditorId,
                      ForwardToCreditor(MapGet(ed2, creditorId, <<>>), coinType,
                                        creditorShortfall))

\* variant: a coin type without a price is distributed all the same, valued at zero
DistributeCoinUnpriced(ed, entityId, obligationsByCreditor, coinType, shortfallAmount) ==
    LET totalObligationsForCoin == TotalObligationsForCoin(obligationsByCreditor, coinType)
    IN IF ~Gt(totalObligationsForCoin, Zero) THEN ed
       ELSE LET shortfallUsdValue == IF coinType \in DOMAIN priceMap
                                     THEN Mul(shortfallAmount, priceMap[coinType])
                                     ELSE Zero
            IN FoldLeft(LAMBDA acc, creditor :
                            DistributeToCreditor(acc, entityId, coinType, shortfallAmount,
                                                 shortfallUsdValue, totalObligationsForCoin,
                                                 creditor),
                        ed, obligationsByCreditor)

\* the body of the coin loop: one coin type of the entity's shortfall map
DistributeCoin(ed, entityId, obligationsByCreditor, coinType, shortfallAmount) ==
    LET totalObligationsForCoin == TotalObligationsForCoin(obligationsByCreditor, coinType)
    IN IF ~Gt(totalObligationsForCoin, Zero) THEN ed
       ELSE IF coinType \notin DOMAIN priceMap THEN ed
       ELSE LET shortfallUsdValue == Mul(shortfallAmount, priceMap[coinType])
            IN FoldLeft(LAMBDA acc, creditor :
                            DistributeToCreditor(acc, entityId, coinType, shortfallAmount,
                                                 shortfallUsdValue, totalObligationsForCoin,
                                                 creditor),
                        ed, obligationsByCreditor)

\* propagateEntityShortfalls(entityId, ...): the entityData map after the call
PropagateEntityShortfalls(entityId, ed) ==
    IF entityId \notin EntityIds \/ ~MapHas(ed, entityId) THEN ed
    ELSE LET totalShortfallsByCoin == MapGet(ed, entityId, <<>>).shortfallsByCoin
             obligationsByCreditor == ObligationsByCreditor(EntityGet(entityId))
         IN IF Len(totalShortfallsByCoin) > 0
            THEN FoldLeft(LAMBDA acc, p :
                              DistributeCoin(acc, entityId, obligationsByCreditor, p.k, p.v),
                          ed, totalShortfallsByCoin)
            ELSE ed

Visited == {processingOrder[j] : j \in 1..Len(processingOrder)}

\* variant: a node is ready once its creditors were all visited
NextCreditorsFirst(e) ==
    /\ e \in EntityIds \ Visited
    /\ \A c \in EntityIds : <<e, c>> \in Edges => c \in Visited

\* the next element of topologicalSort(graph): any node whose debtors were all visited
NextInTopologicalOrder(e) ==
    /\ e \in EntityIds \ Visited
    /\ \A d \in EntityIds : <<d, e>> \in Edges => d \in Visited

\* every order topologicalSort may return: each entity once, debtors before creditors
TopologicalOrders ==
    {o \in [1..Cardinality(EntityIds) -> EntityIds] :
        /\ \A p, q \in DOMAIN o : p # q => o[p] # o[q]
        /\ \A p, q \in DOMAIN o : <<o[p], o[q]>> \in Edges => p < q}

\* entityData at the end of the first pass
FirstPassAll ==
    FoldLeft(LAMBDA ed, entity : MapSet(ed, entity.id, FirstPassData(entity)), <<>>, entities)

\* entityData after the loop over a given processingOrder
PropagateAlong(order, ed) ==
    FoldLeft(LAMBDA acc, entityId : PropagateEntityShortfalls(entityId, acc), ed, order)

-----------------------------------------------------------------------------
(* Third pass and result *)

\* variant: classification by the first-pass USD shortfall alone
IsFirstPassInsolvent(data) == Gt(data.shortfallUsd, Zero)

IsFinallyInsolvent(data) ==
    LET hasDirectShortfall == Len(data.shortfallsByCoin) > 0 \/ Gt(data.shortfallUsd, Zero)
        hasOutgoingObligations == Len(data.totalLiabilities) > 0
        hasReceivedShortfalls == Len(data.shortfallsReceived) > 0
    IN hasDirectShortfall \/ (hasOutgoingObligations /\ hasReceivedShortfalls)

FinalInsolventEntities(ed) ==
    LET insolvent == SelectSeq(MapValues(ed), IsFinallyInsolvent)
    IN [j \in 1..Len(insolvent) |-> insolvent[j].entityId]

\* variant: details lists the insolvent entities only
SolvencyResultInsolventDetails(ed) ==
    [isSolvent |-> Len(FinalInsolventEntities(ed)) = 0,
     insolventEntities |-> FinalInsolventEntities(ed),
     details |-> SelectSeq(MapValues(ed), IsFinallyInsolvent)]

SolvencyResult(ed) ==
    [isSolvent |-> Len(FinalInsolventEntities(ed)) = 0,
     insolventEntities |-> FinalInsolventEntities(ed),
     details |-> MapValues(ed)]

-----------------------------------------------------------------------------
(* Inputs: entity maps and price maps the callers and the tests build *)

External == "X"   \* a creditor id that is not a key of the entities map

One == [n |-> 1, d |-> 1]
Two == [n |-> 2, d |-> 1]

ThreeHalves == [n |-> 3, d |-> 2]

\* fetchUsdPrice: USDC is priced 1; in the model SUI is priced 2 and DEEP 3/2
FullPrices == [c \in Coins |-> IF c = USDC THEN One ELSE IF c = SUI THEN Two ELSE ThreeHalves]
PriceMaps == {FullPrices, [c \in {USDC} |-> One], [c \in {SUI} |-> Two]}

Amts == 0..MaxAmt
PosAmts == 1..MaxAmt
OptAmts == (-1)..MaxAmt      \* -1: the holding or obligation is absent

OptHolding(c, amt) == IF amt < 0 THEN <<>> ELSE <<CoinAsset(c, amt)>>
OptObligation(f, t, c, amt) ==
    IF amt < 0 THEN <<>> ELSE <<Obligation(f, t, CoinAsset(c, amt))>>

\* one entity with holdings and external obligations in both coins, any price map
SingleInputs ==
    {[entities |-> <<Entity("A", OptHolding(USDC, hU) \o OptHolding(SUI, hS),
                            OptObligation("A", External, USDC, oU)
                            \o OptObligation("A", External, SUI, oS))>>,
      priceMap |-> pm] :
        hU \in OptAmts, hS \in OptAmts, oU \in OptAmts, oS \in OptAmts, pm \in PriceMaps}

\* chain A -> B -> C in one coin; C owes nothing or owes an external creditor
ChainInputs ==
    {[entities |-> <<Entity("A", <<CoinAsset(c, hA)>>,
                            <<Obligation("A", "B", CoinAsset(c, a))>>),
                     Entity("B", <<CoinAsset(c, hB)>>,
                            <<Obligation("B", "C", CoinAsset(c, b))>>),
                     Entity("C", <<>>, OptObligation("C", External, c, cX))>>,
      priceMap |-> FullPrices] :
        c \in Coins, hA \in Amts, hB \in Amts, a \in PosAmts, b \in PosAmts,
        cX \in {-1, 1}}

\* the third obligation of the debtor of FanInputs
FanThird(c) ==
    {<<>>,
     <<Obligation("A", "B", CoinAsset(c, 1))>>,
     <<Obligation("A", External, CoinAsset(c, 1))>>,
     <<Obligation("A", "C", LPAsset(USDC, SUI, 1, 1))>>}

\* fan-out: A owes B and C in one coin; B owes nothing or owes an external creditor
FanInputs ==
  UNION {
    {[entities |-> <<Entity("B", <<>>, OptObligation("B", External, c, bX)),
                     Entity("A", <<CoinAsset(c, hA)>>,
                            <<Obligation("A", "B", CoinAsset(c, s1)),
                              Obligation("A", "C", CoinAsset(c, s2))>> \o third),
                     Entity("C", <<>>, <<>>)>>,
      priceMap |-> FullPrices] :
        hA \in Amts, s1 \in Amts, s2 \in Amts, bX \in {-1, 1},
        third \in FanThird(c)} : c \in Coins}

\* cyclic graphs: A -> B -> C -> A, and A -> B -> A beside C; any price map
CycleInputs ==
    {[entities |-> <<Entity("A", <<CoinAsset(USDC, hA)>>,
                            <<Obligation("A", "B", CoinAsset(USDC, a))>>),
                     Entity("B", <<>>,
                            <<Obligation("B", IF three THEN "C" ELSE "A", CoinAsset(c, 1))>>),
                     Entity("C", <<>>,
                            IF three THEN <<Obligation("C", "A", CoinAsset(USDC, 1))>>
                            ELSE <<>>)>>,
      priceMap |-> pm] :
        c \in Coins, hA \in Amts, a \in PosAmts, three \in BOOLEAN, pm \in PriceMaps}

\* SOLVENCY_CHECK.md, "Shortfall Propagation Example"
DocumentedScenario ==
    [entities |-> <<Entity("position", <<CoinAsset(USDC, 400)>>,
                           <<Obligation("position", "pool", CoinAsset(USDC, 1000))>>),
                    Entity("pool", <<>>,
                           <<Obligation("pool", "strategy", CoinAsset(USDC, 800))>>),
                    Entity("strategy", <<>>,
                           <<Obligation("strategy", "sav", CoinAsset(USDC, 600))>>),
                    Entity("sav", <<>>, <<>>)>>,
     priceMap |-> FullPrices]

\* one entity holding a paired position (the two sides may be the same coin type)
LpInputs ==
    {[entities |-> <<Entity("A", <<LPAsset(cA, cB, a, b)>>,
                            IF lpOb
                            THEN <<Obligation("A", External, LPAsset(cO, SUI, 1, o))>>
                            ELSE <<Obligation("A", External, CoinAsset(SUI, o))>>)>>,
      priceMap |-> FullPrices] :
        cA \in Coins, cB \in Coins, cO \in Coins, a \in Amts, b \in PosAmts,
        o \in PosAmts, lpOb \in BOOLEAN}

\* A holds two coin types and owes B two others: deficits in two coin types that the
\* value of a third may cover in part or in full; B owes nothing or an external creditor
SwapInputs ==
    {[entities |-> <<Entity("A", <<CoinAsset(DEEP, hD), CoinAsset(USDC, hU)>>,
                            <<Obligation("A", "B", CoinAsset(USDC, oU)),
                              Obligation("A", "B", CoinAsset(SUI, oS))>>),
                     Entity("B", <<>>, OptObligation("B", External, USDC, bX))>>,
      priceMap |-> FullPrices] :
        hD \in Amts, hU \in Amts, oU \in PosAmts, oS \in PosAmts, bX \in {-1, 1}}

\* fan-in: A and B, independent of each other, both owe C; C owes D or nobody
JoinInputs ==
    {[entities |-> <<Entity("A", <<>>, <<Obligation("A", "C", CoinAsset(c1, a))>>),
                     Entity("B", <<>>, <<Obligation("B", "C", CoinAsset(c2, b))>>),
                     Entity("C", <<>>,
                            IF owesD THEN <<Obligation("C", "D", LPAsset(USDC, SUI, 1, 1))>>
                            ELSE <<>>),
                     Entity("D", <<>>, <<>>)>>,
      priceMap |-> FullPrices] :
        c1 \in Coins, c2 \in Coins, a \in PosAmts, b \in PosAmts, owesD \in BOOLEAN}

Inputs == SingleInputs \cup ChainInputs \cup FanInputs \cup CycleInputs
          \cup LpInputs \cup SwapInputs \cup JoinInputs \cup {DocumentedScenario}

-----------------------------------------------------------------------------
(* The state machine *)

Init ==
    /\ \E inp \in Inputs : entities = inp.entities /\ priceMap = inp.priceMap
    /\ pc = "first"
    /\ i = 0
    /\ insolventEntities = <<>>
    /\ entityData = <<>>
    /\ processingOrder = <<>>
    /\ result = <<>>
    /\ error = <<>>
    /\ allCoinTypes = <<>>

\* variant: an entity with an unpriced coin is skipped instead of failing the run
FirstPassSkipUnpriced ==
    /\ pc = "first"
    /\ i < Len(entities)
    /\ LET entity == entities[i + 1]
       IN IF FirstPassError(entity) # <<>>
          THEN UNCHANGED <<insolventEntities, entityData>>
          ELSE /\ entityData' = MapSet(entityData, entity.id, FirstPassData(entity))
               /\ insolventEntities' =
                      IF Gt(FinalShortfallUsd(DirectNetting(entity)), Zero)
                      THEN insolventEntities \o <<entity.id, entity.id>>
                      ELSE insolventEntities
    /\ i' = i + 1
    /\ UNCHANGED <<entities, priceMap, pc, error, processingOrder, result, allCoinTypes>>

\* one iteration of the first-pass loop over entities.values()
FirstPass ==
    /\ pc = "first"
    /\ i < Len(entities)
    /\ LET entity == entities[i + 1]
       IN IF FirstPassError(entity) # <<>>
          THEN /\ pc' = "failed"
               /\ error' = FirstPassError(entity)
               /\ UNCHANGED <<i, insolventEntities, entityData>>
          ELSE /\ entityData' = MapSet(entityData, entity.id, FirstPassData(entity))
               /\ insolventEntities' =
                      IF Gt(FinalShortfallUsd(DirectNetting(entity)), Zero)
                      THEN insolventEntities \o <<entity.id, entity.id>>
                      ELSE insolventEntities
               /\ i' = i + 1
               /\ UNCHANGED <<pc, error>>
    /\ UNCHANGED <<entities, priceMap, processingOrder, result, allCoinTypes>>

\* variant: the cycle check also runs up front, before the first entity is processed
BuildGraphUpFront ==
    /\ pc = "first"
    /\ i = Len(entities) \/ (i = 0 /\ HasCycle)
    /\ IF HasCycle
       THEN pc' = "failed" /\ error' = <<"Dependency graph contains cycles">>
       ELSE pc' = "propagate" /\ UNCHANGED error
    /\ UNCHANGED <<entities, priceMap, i, insolventEntities, entityData,
                   processingOrder, result, allCoinTypes>>

\* propagateShortfalls up to the topological sort: graph construction and cycle check
BuildGraph ==
    /\ pc = "first"
    /\ i = Len(entities)
    /\ IF HasCycle
       THEN pc' = "failed" /\ error' = <<"Dependency graph contains cycles">>
       ELSE pc' = "propagate" /\ UNCHANGED error
    /\ UNCHANGED <<entities, priceMap, i, insolventEntities, entityData,
                   processingOrder, result, allCoinTypes>>

\* one iteration of the loop over processingOrder
Propagate ==
    /\ pc = "propagate"
    /\ \E e \in EntityIds :
        /\ NextInTopologicalOrder(e)
        /\ entityData' = PropagateEntityShortfalls(e, entityData)
        /\ processingOrder' = Append(processingOrder, e)
    /\ UNCHANGED <<entities, priceMap, pc, i, insolventEntities, result, error, allCoinTypes>>

\* third pass and return
ThirdPass ==
    /\ pc = "propagate"
    /\ Visited = EntityIds
    /\ result' = <<SolvencyResult(entityData)>>
    /\ pc' = "done"
    /\ UNCHANGED <<entities, priceMap, i, insolventEntities, entityData,
                   processingOrder, error, allCoinTypes>>

Next == FirstPass \/ BuildGraph \/ Propagate \/ ThirdPass

Spec == Init /\ [][Next]_vars

-----------------------------------------------------------------------------
(* propagateShortfalls on its own: records computed beforehand, any price table *)

\* the price tables propagateShortfalls may be handed: any part of the full table
SubPriceMaps == {[c \in S |-> FullPrices[c]] : S \in SUBSET Coins}

\* acyclic entity maps with debtors short in one or two coin types
PropagationInputs == SwapInputs \cup JoinInputs

InitPropagate ==
    /\ \E inp \in PropagationInputs : entities = inp.entities /\ priceMap = inp.priceMap
    /\ pc = "records"
    /\ i = 0
    /\ insolventEntities = <<>>
    /\ entityData = <<>>
    /\ processingOrder = <<>>
    /\ result = <<>>
    /\ error = <<>>
    /\ allCoinTypes = <<>>

\* propagateShortfalls(entityData, entities, priceMap) entered with the first-pass records
\* and a price table of the caller's choice
CallPropagateShortfalls ==
    /\ pc = "records"
    /\ entityData' = FirstPassAll
    /\ \E pm \in SubPriceMaps : priceMap' = pm
    /\ pc' = "propagate"
    /\ UNCHANGED <<entities, i, insolventEntities, processingOrder, result, error, allCoinTypes>>

NextPropagate == CallPropagateShortfalls \/ Propagate

PropagateSpec == InitPropagate /\ [][NextPropagate]_vars

-----------------------------------------------------------------------------
(* The CLI action: the entity map is assembled, prices are fetched, the core runs *)

\* object ids of the deployment; a vault, its depositors and its strategy are named
\* after the vault's coin type, a supply pool after the strategy whose share type it has
SavUsersId(c) == IF c = USDC THEN "sav-users-USDC" ELSE IF c = SUI THEN "sav-users-SUI" ELSE "sav-users-DEEP"
VaultId(c) == IF c = USDC THEN "vault-USDC" ELSE IF c = SUI THEN "vault-SUI" ELSE "vault-DEEP"
StrategyId(c) == IF c = USDC THEN "strategy-USDC" ELSE IF c = SUI THEN "strategy-SUI" ELSE "strategy-DEEP"
SupplyPoolId(c) == IF c = USDC THEN "pool-USDC" ELSE IF c = SUI THEN "pool-SUI" ELSE "pool-DEEP"
PositionId == "position-1"

\* Object.keys(VAULTS) / SUPPLY_POOL_INFOS are walked in one fixed order
CoinOrder == <<USDC, SUI, DEEP>>

\* the coin types that have a vault in VAULTS: a deployment of one vault
VaultSets == {{c} : c \in Coins}

\* the supply pools getAllSupplyPools returns: one pool, named by its share type
SupplyPoolSets == {{c} : c \in Coins}

\* the two entities the SAV loop adds for the vault of coin type c
SavEntities(c, freeBalance, liabilities) == <<Entity(SavUsersId(c), <<>>, <<>>), Entity(VaultId(c), <<CoinAsset(c, freeBalance)>>, <<Obligation(VaultId(c), SavUsersId(c), CoinAsset(c, freeBalance + liabilities))>>)>>

\* the entity added for the supply pool strategy of the vault of coin type c
StrategyEntity(c, collected, borrowed) == Entity(StrategyId(c), <<CoinAsset(c, collected)>>, <<Obligation(StrategyId(c), VaultId(c), CoinAsset(c, borrowed))>>)

\* the entity added for the supply pool of asset type t whose share type is strategy st's
SupplyPoolEntity(st, t, available, value) == Entity(SupplyPoolId(st), <<CoinAsset(t, available)>>, <<Obligation(SupplyPoolId(st), StrategyId(st), CoinAsset(t, value))>>)

\* the entity added for a position in coins x, y borrowing from the pools px and py
PositionEntity(x, y, px, py, amt, debt) == Entity(PositionId, <<LPAsset(x, y, amt, amt), CoinAsset(x, 0), CoinAsset(y, 0)>>, <<Obligation(PositionId, SupplyPoolId(px), CoinAsset(x, debt)), Obligation(PositionId, SupplyPoolId(py), CoinAsset(y, debt))>>)

\* one sequence per member of S, in CoinOrder, concatenated
RECURSIVE ForEachCoin(_, _, _)
ForEachCoin(S, f, k) == IF k > Len(CoinOrder) THEN <<>> ELSE (IF CoinOrder[k] \in S THEN f[CoinOrder[k]] ELSE <<>>) \o ForEachCoin(S, f, k + 1)

\* h.kind === 'coin' ? [h.coin.typeName] : [h.coinA.typeName, h.coinB.typeName]
AssetCoinTypes(a) == IF a.kind = "coin" THEN <<a.coin>> ELSE <<a.coinA, a.coinB>>

RECURSIVE FlatMapCoinTypes(_, _)
FlatMapCoinTypes(assets, k) == IF k > Len(assets) THEN <<>> ELSE AssetCoinTypes(assets[k]) \o FlatMapCoinTypes(assets, k + 1)

\* the coin types of one entity: its holdings' first, then its obligations'
EntityCoinTypes(e) == FlatMapCoinTypes(e.holdings, 1) \o FlatMapCoinTypes([k \in 1..Len(e.obligations) |-> e.obligations[k].asset], 1)

RECURSIVE AllEntityCoinTypes(_, _)
AllEntityCoinTypes(ents, k) == IF k > Len(ents) THEN <<>> ELSE EntityCoinTypes(ents[k]) \o AllEntityCoinTypes(ents, k + 1)

\* Array.from(new Set(list)): first occurrences, in order
RECURSIVE Distinct(_, _)
Distinct(list, k) == IF k = 0 THEN <<>> ELSE LET before == Distinct(list, k - 1) IN IF \E j \in 1..Len(before) : before[j] = list[k] THEN before ELSE Append(before, list[k])

\* the coin types of the entities that are in the map when the list is computed
CoinTypesOf(ents) == Distinct(AllEntityCoinTypes(ents, 1), Len(AllEntityCoinTypes(ents, 1)))

\* the vaults loaded so far, read back from the map
LoadedVaults == {c \in Coins : VaultId(c) \in EntityIds}
LoadedStrategies == {c \in Coins : StrategyId(c) \in EntityIds}
LoadedSupplyPools == {c \in Coins : SupplyPoolId(c) \in EntityIds}

\* liabilities of the vault of coin type c: what its obligation exceeds its free balance by
VaultBorrowed(c) == LET sav == EntityGet(VaultId(c)) IN sav.obligations[1].asset.amount - sav.holdings[1].amount

InitCli ==
    /\ entities = <<>>
    /\ priceMap = <<>>
    /\ pc = "savs"
    /\ i = 0
    /\ insolventEntities = <<>>
    /\ entityData = <<>>
    /\ processingOrder = <<>>
    /\ result = <<>>
    /\ error = <<>>
    /\ allCoinTypes = <<>>

\* the SAV loop: for every vault its depositors entity and the vault entity
LoadSavs ==
    /\ pc = "savs"
    /\ \E VS \in VaultSets : \E freeBalance \in PosAmts, liabilities \in Amts :
          entities' = ForEachCoin(VS, [c \in VS |-> SavEntities(c, freeBalance, liabilities)], 1)
    /\ pc' = "strategies"
    /\ UNCHANGED <<priceMap, i, insolventEntities, entityData, processingOrder, result, error, allCoinTypes>>

\* the strategy loop, then the list of coin types of the entities added so far
LoadStrategies ==
    /\ pc = "strategies"
    /\ entities' = entities \o ForEachCoin(LoadedVaults, [c \in LoadedVaults |-> <<StrategyEntity(c, 0, VaultBorrowed(c))>>], 1)
    /\ allCoinTypes' = CoinTypesOf(entities')
    /\ pc' = "pools"
    /\ UNCHANGED <<priceMap, i, insolventEntities, entityData, processingOrder, result, error>>

\* the supply pool loop; a pool whose share type no strategy has ends the run
LoadSupplyPools ==
    /\ pc = "pools"
    /\ \E PS \in SupplyPoolSets : \E T \in [PS -> Coins] : \E available \in PosAmts :
          IF \E st \in PS : st \notin LoadedStrategies
          THEN /\ pc' = "failed"
               /\ error' = <<"Supply pool strategy not found">>
               /\ UNCHANGED entities
          ELSE /\ entities' = entities \o ForEachCoin(PS, [st \in PS |-> <<SupplyPoolEntity(st, T[st], available, MaxAmt)>>], 1)
               /\ pc' = "positions"
               /\ UNCHANGED error
    /\ UNCHANGED <<priceMap, i, insolventEntities, entityData, processingOrder, result, allCoinTypes>>

\* the position loop; every position borrows from two of the loaded supply pools
LoadPositions ==
    /\ pc = "positions"
    /\ \/ UNCHANGED entities
       \/ \E x \in Coins, y \in Coins, px \in LoadedSupplyPools, py \in LoadedSupplyPools : \E debt \in PosAmts :
             entities' = Append(entities, PositionEntity(x, y, px, py, 1, debt))
    /\ pc' = "prices"
    /\ UNCHANGED <<priceMap, i, insolventEntities, entityData, processingOrder, result, error, allCoinTypes>>

\* a price is fetched for every listed coin type, then checkEntitySolvency is called
FetchPrices ==
    /\ pc = "prices"
    /\ priceMap' = [c \in {allCoinTypes[k] : k \in 1..Len(allCoinTypes)} |-> FullPrices[c]]
    /\ pc' = "first"
    /\ UNCHANGED <<entities, i, insolventEntities, entityData, processingOrder, result, error, allCoinTypes>>

NextCli == LoadSavs \/ LoadStrategies \/ LoadSupplyPools \/ LoadPositions \/ FetchPrices \/ FirstPass \/ BuildGraph \/ Propagate \/ ThirdPass

CliSpec == InitCli /\ [][NextCli]_vars

-----------------------------------------------------------------------------
(* Vocabulary of the properties *)

CycleError == <<"Dependency graph contains cycles">>
PriceErrors == {<<"Price not found for coin type">>, <<"Price not found for LP asset coins">>}

Returned == pc = "done"
Res == result[1]
InsolventSet == {Res.insolventEntities[j] : j \in 1..Len(Res.insolventEntities)}

\* the record of an entity in entityData
Data(id) == MapGet(entityData, id, <<>>)
HasData(id) == MapHas(entityData, id)

\* n owes m: some obligation of n names m as creditor
Owes(n, m) ==
    \E k \in 1..Len(EntityGet(n).obligations) : EntityGet(n).obligations[k].to = m

\* the debtor -> creditor graph over the entity set has a cycle: a non-empty set of
\* entities each of which owes to a member of the set
CyclicInput ==
    \E S \in SUBSET EntityIds : S # {} /\ \A n \in S : \E m \in S : Owes(n, m)

AssetCoins(a) == IF a.kind = "coin" THEN {a.coin} ELSE {a.coinA, a.coinB}

\* every coin type of any holding or obligation of any entity
CoinsAppearing ==
    UNION {UNION {AssetCoins(entities[j].holdings[k]) : k \in 1..Len(entities[j].holdings)}
           \cup UNION {AssetCoins(entities[j].obligations[k].asset) :
                          k \in 1..Len(entities[j].obligations)} : j \in 1..Len(entities)}

SomePriceMissing == \E c \in CoinsAppearing : c \notin DOMAIN priceMap

\* amount of coin c held on either side of an asset
AssetAmount(a, c) ==
    IF a.kind = "coin" THEN (IF a.coin = c THEN a.amount ELSE 0)
    ELSE (IF a.coinA = c THEN a.amountA ELSE 0) + (IF a.coinB = c THEN a.amountB ELSE 0)

SumInt(s) == FoldLeft(LAMBDA x, y : x + y, 0, s)

\* raw amount of coin c the entity holds, is owed by entities of the set, and owes
HeldRaw(entity, c) ==
    SumInt([k \in 1..Len(entity.holdings) |-> AssetAmount(entity.holdings[k], c)])
InboundRaw(entity, c) ==
    SumInt([j \in 1..Len(entities) |->
              SumInt([k \in 1..Len(entities[j].obligations) |->
                        IF entities[j].obligations[k].to = entity.id
                        THEN AssetAmount(entities[j].obligations[k].asset, c) ELSE 0])])
OwedRaw(entity, c) ==
    SumInt([k \in 1..Len(entity.obligations) |-> AssetAmount(entity.obligations[k].asset, c)])
OwedCoins(entity) ==
    UNION {AssetCoins(entity.obligations[k].asset) : k \in 1..Len(entity.obligations)}

\* sum of the amounts of the details for coin c in the entries of list that name `other`
RecordedAmount(list, other, c) ==
    SumRat([j \in 1..Len(list) |->
              IF list[j].owesTo = other
              THEN SumRat([d \in 1..Len(list[j].shortfalls) |->
                             IF list[j].shortfalls[d].coinType = c
                             THEN list[j].shortfalls[d].amount ELSE Zero])
              ELSE Zero])

\* what creditor received from debtor in coin c, and what debtor caused to creditor
Received(creditor, debtor, c) == RecordedAmount(Data(creditor).shortfallsReceived, debtor, c)
Caused(debtor, creditor, c) == RecordedAmount(Data(debtor).shortfallsCaused, creditor, c)

-----------------------------------------------------------------------------
(* Properties *)

\* C1 (as stated): whenever the debtor->creditor graph of the input has a cycle, the run
\* ends with the cyclic-dependency error and no result.
C1_CycleAlwaysCycleError ==
    (CyclicInput /\ pc \in {"failed", "done"}) =>
        (pc = "failed" /\ error = CycleError /\ result = <<>>)

\* C1 (amended): a cyclic input never reaches propagation and never yields a result; it
\* fails with the cyclic-dependency error when every coin type of the input is priced, and
\* with the first-pass price error otherwise.
C1_CycleFailsWithoutResult ==
    CyclicInput =>
        /\ result = <<>>
        /\ pc \in {"first", "failed"}
        /\ pc = "failed" =>
              IF SomePriceMissing THEN error \in PriceErrors ELSE error = CycleError

C1_Witness ==
    /\ CyclicInput
    /\ pc = "failed"
    /\ error = CycleError
    /\ Len(entityData) = Len(entities)
    /\ \A n \in EntityIds : ~(Owes(n, n) \/ \E m \in EntityIds : Owes(n, m) /\ Owes(m, n))

\* C2: if some coin type of a holding (even of amount zero, even of an entity that owes
\* nothing) or of an obligation has no price, the first pass throws a price error: the
\* loop never completes, propagation never starts and no result is returned.
C2_MissingPriceFailsFirstPass ==
    SomePriceMissing =>
        /\ result = <<>>
        /\ pc \in {"first", "failed"}
        /\ pc = "first" => i < Len(entities)
        /\ pc = "failed" => error \in PriceErrors

C2_Witness ==
    /\ pc = "failed"
    /\ error \in PriceErrors
    /\ \E j \in 1..Len(entities) :
        /\ entities[j].obligations = <<>>
        /\ \E k \in 1..Len(entities[j].holdings) :
              /\ entities[j].holdings[k].kind = "coin"
              /\ entities[j].holdings[k].amount = 0
              /\ entities[j].holdings[k].coin \notin DOMAIN priceMap

\* C3: in every returned result, an entity whose obligations list is empty is not in
\* insolventEntities, its shortfallUsd is 0 and its shortfallsByCoin is empty, whatever it
\* received.
C3_NoObligationsNeverInsolvent ==
    Returned =>
        \A j \in 1..Len(entities) :
            entities[j].obligations = <<>> =>
                /\ entities[j].id \notin InsolventSet
                /\ Data(entities[j].id).shortfallUsd = Zero
                /\ Data(entities[j].id).shortfallsByCoin = <<>>

C3_Witness ==
    /\ Returned
    /\ \E j \in 1..Len(entities) :
        /\ entities[j].obligations = <<>>
        /\ Data(entities[j].id).shortfallsReceived # <<>>
        /\ entities[j].id \notin InsolventSet

\* C4: in every returned result, an entity is in insolventEntities iff its per-type
\* shortfall map has a nonzero entry, or it has an outbound obligation and a
\* received-shortfall entry.
C4_FinalClassification ==
    Returned =>
        \A j \in 1..Len(entities) :
            LET d == Data(entities[j].id)
            IN (entities[j].id \in InsolventSet) <=>
                  \/ \E k \in 1..Len(d.shortfallsByCoin) : d.shortfallsByCoin[k].v # Zero
                  \/ (Len(entities[j].obligations) > 0 /\ Len(d.shortfallsReceived) > 0)

\* an entity with obligations whose assets exceed its liabilities, insolvent by receipt
C4_Witness ==
    /\ Returned
    /\ \E j \in 1..Len(entities) :
        LET d == Data(entities[j].id)
        IN /\ Len(entities[j].obligations) > 0
           /\ Gt(d.totalAssetsUsd, d.totalLiabilitiesUsd)
           /\ d.shortfallUsd = Zero
           /\ Len(d.shortfallsReceived) > 0
           /\ entities[j].id \in InsolventSet

\* C5: in every returned result, isSolvent holds iff insolventEntities is empty, and
\* details holds exactly one record per entity of the input.
C5_ResultShape ==
    Returned =>
        /\ Res.isSolvent <=> (Res.insolventEntities = <<>>)
        /\ Len(Res.details) = Len(entities)
        /\ \A id \in EntityIds :
              Cardinality({k \in 1..Len(Res.details) : Res.details[k].entityId = id}) = 1

\* a result whose first-pass list and final list disagree
C5_Witness ==
    /\ Returned
    /\ ~Res.isSolvent
    /\ Len(Res.details) > 1
    /\ Len(Res.insolventEntities) * 2 > Len(insolventEntities)

\* raw amount of coin c that entity owes to creditor m
OwedToRaw(entity, m, c) ==
    SumInt([k \in 1..Len(entity.obligations) |->
              IF entity.obligations[k].to = m
              THEN AssetAmount(entity.obligations[k].asset, c) ELSE 0])

Creditors(entity) == {entity.obligations[k].to : k \in 1..Len(entity.obligations)}

\* the entity's residual shortfall in coin c
ShortfallOf(id, c) == MapGet(Data(id).shortfallsByCoin, c, Zero)

\* X * si / S for debtor entity, creditor m, coin c
ProRataShare(entity, m, c) ==
    Div(Mul(ShortfallOf(entity.id, c), Rat(OwedToRaw(entity, m, c), 1)),
        Rat(OwedRaw(entity, c), 1))

\* sum of every allocation in coin c recorded in the entity's shortfallsCaused
TotalCaused(id, c) ==
    SumRat([j \in 1..Len(Data(id).shortfallsCaused) |->
              SumRat([d \in 1..Len(Data(id).shortfallsCaused[j].shortfalls) |->
                        IF Data(id).shortfallsCaused[j].shortfalls[d].coinType = c
                        THEN Data(id).shortfallsCaused[j].shortfalls[d].amount ELSE Zero])])

\* C6: an entity whose holdings plus inbound obligations are at least what it owes, in
\* every coin type it owes, leaves the first pass with shortfallUsd = 0, swapUsedUsd = 0
\* and an empty per-type shortfall map.
C6_CoveredEntityHasNoShortfall ==
    pc = "first" =>
        \A j \in 1..Len(entities) :
            (/\ HasData(entities[j].id)
             /\ \A c \in OwedCoins(entities[j]) :
                    HeldRaw(entities[j], c) + InboundRaw(entities[j], c)
                        >= OwedRaw(entities[j], c))
            => /\ Data(entities[j].id).shortfallUsd = Zero
               /\ Data(entities[j].id).swapUsedUsd = Zero
               /\ Data(entities[j].id).shortfallsByCoin = <<>>

\* C7: for every entity the first-pass shortfallUsd is
\* max(0, totalLiabilitiesUsd - totalAssetsUsd).
C7_ShortfallIsNetLiabilities ==
    \A j \in 1..Len(entities) :
        HasData(entities[j].id) =>
            LET d == Data(entities[j].id)
            IN d.shortfallUsd = DecimalMax(Zero, Minus(d.totalLiabilitiesUsd, d.totalAssetsUsd))

\* per-type mismatch fully covered by the value of another coin type
C7_Witness ==
    \E j \in 1..Len(entities) :
        /\ HasData(entities[j].id)
        /\ \E c \in Coins : HeldRaw(entities[j], c) + InboundRaw(entities[j], c)
                              < OwedRaw(entities[j], c)
        /\ Gt(Data(entities[j].id).swapUsedUsd, Zero)
        /\ Gte(Data(entities[j].id).totalAssetsUsd, Data(entities[j].id).totalLiabilitiesUsd)
        /\ Data(entities[j].id).shortfallUsd = Zero

\* a deficit partly covered by the value of another coin type
C7_WitnessPartial ==
    \E j \in 1..Len(entities) :
        /\ HasData(entities[j].id)
        /\ Gt(Data(entities[j].id).swapUsedUsd, Zero)
        /\ Gt(Data(entities[j].id).shortfallUsd, Zero)

\* C8 (as stated): once an entity with shortfall X in coin c, owing c to creditors with
\* amounts s1..sN (S > 0), has been visited, its shortfallsCaused holds X*si/S toward each
\* creditor i and the recorded allocations for c sum to X.
C8_ProRataSumsToShortfall ==
    \A j \in 1..Len(entities) : \A c \in Coins :
        (/\ entities[j].id \in Visited
         /\ Gt(ShortfallOf(entities[j].id, c), Zero)
         /\ OwedRaw(entities[j], c) > 0)
        => /\ \A m \in Creditors(entities[j]) :
                 Caused(entities[j].id, m, c) = ProRataShare(entities[j], m, c)
           /\ TotalCaused(entities[j].id, c) = ShortfallOf(entities[j].id, c)

\* C8 (amended): once such an entity has been visited, every creditor i that is in the
\* entity set has X*si/S recorded both in the debtor's shortfallsCaused and in its own
\* shortfallsReceived, nothing is recorded toward a creditor outside the set, and the
\* recorded allocations for c sum to X when every creditor owed c is in the set.
C8_ProRataAmongKnownCreditors ==
    \A j \in 1..Len(entities) : \A c \in Coins :
        (/\ entities[j].id \in Visited
         /\ Gt(ShortfallOf(entities[j].id, c), Zero)
         /\ OwedRaw(entities[j], c) > 0)
        => /\ \A m \in Creditors(entities[j]) :
                 IF m \in EntityIds
                 THEN /\ Caused(entities[j].id, m, c) = ProRataShare(entities[j], m, c)
                      /\ Received(m, entities[j].id, c) = ProRataShare(entities[j], m, c)
                 ELSE Caused(entities[j].id, m, c) = Zero
           /\ (\A m \in Creditors(entities[j]) :
                   OwedToRaw(entities[j], m, c) > 0 => m \in EntityIds)
              => TotalCaused(entities[j].id, c) = ShortfallOf(entities[j].id, c)

\* a visited debtor with two creditors of the set holding unequal shares of one coin
C8_Witness ==
    \E j \in 1..Len(entities) : \E c \in Coins :
        /\ entities[j].id \in Visited
        /\ Gt(ShortfallOf(entities[j].id, c), Zero)
        /\ Creditors(entities[j]) \subseteq EntityIds
        /\ \E m1, m2 \in Creditors(entities[j]) :
              /\ OwedToRaw(entities[j], m1, c) > OwedToRaw(entities[j], m2, c)
              /\ OwedToRaw(entities[j], m2, c) > 0
              /\ Gt(Caused(entities[j].id, m1, c), Caused(entities[j].id, m2, c))
        /\ TotalCaused(entities[j].id, c) = ShortfallOf(entities[j].id, c)

\* C9: in the documented scenario the pool receives 600 USDC from the position, the
\* strategy 400 USDC from the pool and the vault 200 USDC from the strategy.
C9_DocumentedCascade ==
    (entities = DocumentedScenario.entities /\ Returned) =>
        /\ Received("pool", "position", USDC) = Rat(600, 1)
        /\ Received("strategy", "pool", USDC) = Rat(400, 1)
        /\ Received("sav", "strategy", USDC) = Rat(200, 1)

\* three entities, the first owing the second and the second the third in one coin type,
\* each of the first two holding that coin type only, nothing else owed inside the set
ChainShape ==
    /\ Len(entities) = 3
    /\ \E c \in Coins :
        /\ \A j \in 1..2 :
            /\ Len(entities[j].obligations) = 1
            /\ entities[j].obligations[1].to = entities[j + 1].id
            /\ entities[j].obligations[1].asset.kind = "coin"
            /\ entities[j].obligations[1].asset.coin = c
            /\ \A k \in 1..Len(entities[j].holdings) :
                  AssetCoins(entities[j].holdings[k]) = {c}
    /\ Creditors(entities[3]) \cap EntityIds = {}

ChainCoin == entities[1].obligations[1].asset.coin

Max0(x) == IF x > 0 THEN x ELSE 0

\* raw amount the middle entity of a chain cannot deliver, given what the first delivers
ChainUndelivered ==
    LET c == ChainCoin
        shortA == Max0(OwedRaw(entities[1], c) - HeldRaw(entities[1], c))
    IN Max0(OwedRaw(entities[2], c)
            - (HeldRaw(entities[2], c) + OwedRaw(entities[1], c) - shortA))

\* C10: in a chain A -> B -> C the shortfall C records as received from B is
\* max(0, B's obligation - (B's holdings + A's obligation - A's shortfall)).
C10_ChainReceivesUndelivered ==
    (ChainShape /\ Returned) =>
        Received(entities[3].id, entities[2].id, ChainCoin)
            = AmountToNumber(ChainUndelivered, Decimals[ChainCoin])

\* amount recorded for coin c in an AssetBalance list (totalAssets, totalLiabilities)
BalanceOf(list, c) ==
    SumRat([k \in 1..Len(list) |-> IF list[k].coinType = c THEN list[k].amount ELSE Zero])

BalanceCoins(list) == {list[k].coinType : k \in 1..Len(list)}

\* C11: for every entity and coin type, the first-pass asset total is the sum of the
\* entity's holdings of that type (single-coin holdings and both sides of every paired
\* holding, also when the two sides are the same coin type) plus the face amount of every
\* obligation of the set whose creditor is the entity.
C11_AssetTotalIsHoldingsPlusInbound ==
    \A j \in 1..Len(entities) :
        HasData(entities[j].id) =>
            \A c \in Coins :
                BalanceOf(Data(entities[j].id).totalAssets, c)
                    = AmountToNumber(HeldRaw(entities[j], c) + InboundRaw(entities[j], c),
                                     Decimals[c])

\* number of flattened lines produced by the first k obligations of the entity
LinesBefore(entity, k) ==
    SumInt([m \in 1..k |-> IF entity.obligations[m].asset.kind = "coin" THEN 1 ELSE 2])

\* C12: every paired outbound obligation is flattened into two lines, one per side with
\* that side's coin type and amount (a single-coin obligation into one), and
\* totalLiabilities holds exactly one entry per coin type owed, whose amount is the sum of
\* all single-coin and paired-side amounts owed in that type.
C12_PairedObligationsFlattened ==
    \A j \in 1..Len(entities) :
        HasData(entities[j].id) =>
            LET e == entities[j]
                lines == Obligations(e)
                tl == Data(e.id).totalLiabilities
            IN /\ Len(lines) = LinesBefore(e, Len(e.obligations))
               /\ \A k \in 1..Len(e.obligations) :
                     LET ob == e.obligations[k]
                         at == LinesBefore(e, k - 1)
                     IN IF ob.asset.kind = "coin"
                        THEN /\ lines[at + 1].coinType = ob.asset.coin
                             /\ lines[at + 1].amount = ob.asset.amount
                             /\ lines[at + 1].to = ob.to
                        ELSE /\ lines[at + 1].coinType = ob.asset.coinA
                             /\ lines[at + 1].amount = ob.asset.amountA
                             /\ lines[at + 1].to = ob.to
                             /\ lines[at + 2].coinType = ob.asset.coinB
                             /\ lines[at + 2].amount = ob.asset.amountB
                             /\ lines[at + 2].to = ob.to
               /\ BalanceCoins(tl) = OwedCoins(e)
               /\ Len(tl) = Cardinality(OwedCoins(e))
               /\ \A c \in OwedCoins(e) :
                     BalanceOf(tl, c) = AmountToNumber(OwedRaw(e, c), Decimals[c])

\* an entity whose paired obligation has both sides in the same coin type
C12_Witness ==
    \E j \in 1..Len(entities) :
        /\ HasData(entities[j].id)
        /\ \E k \in 1..Len(entities[j].obligations) :
              LET a == entities[j].obligations[k].asset
              IN /\ a.kind = "lp"
                 /\ a.coinA = a.coinB
                 /\ a.amountA > 0 /\ a.amountB > 0
                 /\ BalanceOf(Data(entities[j].id).totalLiabilities, a.coinA)
                        = AmountToNumber(a.amountA + a.amountB, Decimals[a.coinA])

\* sum of f(c) over the coin types of the model
SumCoins(f(_)) ==
    LET RECURSIVE S(_)
        S(set) == IF set = {} THEN Zero
                  ELSE LET c == CHOOSE x \in set : TRUE IN Plus(f(c), S(set \ {c}))
    IN S(Coins)

\* price of a coin type; Zero stands for a coin type the input never mentions
Price(c) == IF c \in DOMAIN priceMap THEN priceMap[c] ELSE Zero

\* per-type totals of a record, and what direct netting leaves of them
AvailableOf(d, c) == BalanceOf(d.totalAssets, c)
OwedOf(d, c) == BalanceOf(d.totalLiabilities, c)
SurplusOf(d, c) == DecimalMax(Zero, Minus(AvailableOf(d, c), OwedOf(d, c)))
DeficitOf(d, c) == DecimalMax(Zero, Minus(OwedOf(d, c), AvailableOf(d, c)))
SurplusUsd(d) == SumCoins(LAMBDA c : Mul(SurplusOf(d, c), Price(c)))
DeficitUsd(d) == SumCoins(LAMBDA c : Mul(DeficitOf(d, c), Price(c)))
DeficitCoins(d) == {c \in Coins : Gt(OwedOf(d, c), AvailableOf(d, c))}

\* C13: for every entity, swapUsedUsd is the lesser of the USD value of the per-type
\* surpluses left after direct netting and the USD value of the per-type deficits; it
\* exceeds neither.
C13_SwapUsesLesserValue ==
    \A j \in 1..Len(entities) :
        HasData(entities[j].id) =>
            LET d == Data(entities[j].id)
            IN /\ d.swapUsedUsd = DecimalMin(SurplusUsd(d), DeficitUsd(d))
               /\ Gte(SurplusUsd(d), d.swapUsedUsd)
               /\ Gte(DeficitUsd(d), d.swapUsedUsd)

\* an entity whose surpluses are worth less than its deficits: the swap uses all it has
C13_Witness ==
    \E j \in 1..Len(entities) :
        /\ HasData(entities[j].id)
        /\ Gt(Data(entities[j].id).swapUsedUsd, Zero)
        /\ Gt(DeficitUsd(Data(entities[j].id)), SurplusUsd(Data(entities[j].id)))
        /\ Data(entities[j].id).swapUsedUsd = SurplusUsd(Data(entities[j].id))

\* C14: whenever swapUsedUsd > 0, swappedRepayments has exactly one entry per deficit
\* coin type, the entry for type c is swapUsedUsd * (deficitUsd_c / total deficit USD)
\* / price_c, and the repayments valued at their prices sum to swapUsedUsd.
C14_SwappedRepaymentsProportional ==
    \A j \in 1..Len(entities) :
        HasData(entities[j].id) =>
            LET d == Data(entities[j].id)
                sr == d.swappedRepayments
            IN Gt(d.swapUsedUsd, Zero) =>
                  /\ {sr[k].coinType : k \in 1..Len(sr)} = DeficitCoins(d)
                  /\ Len(sr) = Cardinality(DeficitCoins(d))
                  /\ \A k \in 1..Len(sr) :
                        LET c == sr[k].coinType
                        IN sr[k].amount =
                              Div(Mul(d.swapUsedUsd,
                                      Div(Mul(DeficitOf(d, c), Price(c)), DeficitUsd(d))),
                                  Price(c))
                  /\ SumRat([k \in 1..Len(sr) |-> Mul(sr[k].amount, Price(sr[k].coinType))])
                        = d.swapUsedUsd

\* a swap shared between two deficit coin types of unequal USD value
C14_Witness ==
    \E j \in 1..Len(entities) :
        LET d == Data(entities[j].id)
        IN /\ HasData(entities[j].id)
           /\ Gt(d.swapUsedUsd, Zero)
           /\ Len(d.swappedRepayments) = 2
           /\ Cardinality(DeficitCoins(d)) = 2
           /\ Mul(d.swappedRepayments[1].amount, Price(d.swappedRepayments[1].coinType))
                 # Mul(d.swappedRepayments[2].amount, Price(d.swappedRepayments[2].coinType))

\* C15: at the end of the first pass the per-type shortfall map of an entity is empty when
\* its residual shortfall is 0; otherwise its keys are exactly the coin types whose owed
\* total exceeds the available total, each value is that type's deficit scaled by
\* residual / total deficit USD, and the values priced in USD sum to shortfallUsd.
C15_ShortfallMapScaledDeficits ==
    pc = "first" =>
        \A j \in 1..Len(entities) :
            HasData(entities[j].id) =>
                LET d == Data(entities[j].id)
                    m == d.shortfallsByCoin
                IN IF d.shortfallUsd = Zero THEN m = <<>>
                   ELSE /\ MapKeys(m) = DeficitCoins(d)
                        /\ Len(m) = Cardinality(DeficitCoins(d))
                        /\ \A c \in DeficitCoins(d) :
                              MapGet(m, c, Zero)
                                  = Mul(DeficitOf(d, c), Div(d.shortfallUsd, DeficitUsd(d)))
                        /\ SumRat([k \in 1..Len(m) |-> Mul(m[k].v, Price(m[k].k))])
                              = d.shortfallUsd

\* two deficit coin types, a surplus in a third that covers part of their value
C15_Witness ==
    /\ pc = "first"
    /\ \E j \in 1..Len(entities) :
        LET d == Data(entities[j].id)
        IN /\ HasData(entities[j].id)
           /\ Gt(d.shortfallUsd, Zero)
           /\ Gt(d.swapUsedUsd, Zero)
           /\ Cardinality(DeficitCoins(d)) = 2
           /\ Len(d.shortfallsByCoin) = 2
           /\ \E c \in Coins : Gt(SurplusOf(d, c), Zero)

\* the details for coin c in the entries of list that name `other`
DetailsOf(list, other, c) ==
    UNION {{list[j].shortfalls[k] : k \in {k \in 1..Len(list[j].shortfalls) :
                                              list[j].shortfalls[k].coinType = c}} :
           j \in {j \in 1..Len(list) : list[j].owesTo = other}}

PropagationDone == pc = "propagate" /\ Visited = EntityIds

EntriesOf(list) ==
    {[owesTo |-> list[j].owesTo,
      totalUsdValue |-> list[j].totalUsdValue,
      shortfalls |-> {list[j].shortfalls[k] : k \in 1..Len(list[j].shortfalls)},
      count |-> Len(list[j].shortfalls)] : j \in 1..Len(list)}

\* what propagation wrote, order of entries and of map keys set aside
Outcome(ed) ==
    [id \in MapKeys(ed) |->
        LET d == MapGet(ed, id, <<>>)
        IN [shortfallsByCoin |-> {<<d.shortfallsByCoin[k].k, d.shortfallsByCoin[k].v>> :
                                     k \in 1..Len(d.shortfallsByCoin)},
            received |-> EntriesOf(d.shortfallsReceived),
            receivedCount |-> Len(d.shortfallsReceived),
            caused |-> EntriesOf(d.shortfallsCaused),
            causedCount |-> Len(d.shortfallsCaused)]]

TotalReceived(id, c) ==
    SumRat([j \in 1..Len(Data(id).shortfallsReceived) |->
              SumRat([d \in 1..Len(Data(id).shortfallsReceived[j].shortfalls) |->
                        IF Data(id).shortfallsReceived[j].shortfalls[d].coinType = c
                        THEN Data(id).shortfallsReceived[j].shortfalls[d].amount ELSE Zero])])

\* the entity's per-type shortfall map as the first pass stored it
OwnShortfalls(id) == FirstPassData(EntityGet(id)).shortfallsByCoin

\* C19: what is allocated to a creditor (recorded in its shortfallsReceived) is added to the
\* creditor's per-type shortfall map iff the creditor has at least one outbound
\* obligation: the map of a creditor that owes holds its own first-pass shortfall plus
\* everything it received, the map of a creditor that owes nothing is left as the first
\* pass stored it.
C19_ForwardedIffCreditorOwes ==
    \A id \in EntityIds :
        HasData(id) =>
            IF Len(EntityGet(id).obligations) > 0
            THEN \A c \in Coins :
                    ShortfallOf(id, c)
                        = Plus(MapGet(OwnShortfalls(id), c, Zero), TotalReceived(id, c))
            ELSE Data(id).shortfallsByCoin = OwnShortfalls(id)

\* one debtor's shortfall reached a creditor that owes (its map grew beyond its own
\* first-pass shortfall) and a creditor that owes nothing (its map stayed empty)
C19_Witness ==
    /\ pc = "propagate"
    /\ \E m \in EntityIds : \E n \in EntityIds : \E c \in Coins :
        /\ Len(EntityGet(m).obligations) > 0
        /\ Gt(TotalReceived(m, c), Zero)
        /\ Gte(ShortfallOf(m, c), TotalReceived(m, c))
        /\ Len(EntityGet(n).obligations) = 0
        /\ Gt(TotalReceived(n, c), Zero)
        /\ Data(n).shortfallsByCoin = <<>>

\* C20: every shortfallsReceived has at most one entry per origin debtor, every
\* shortfallsCaused at most one entry per destination creditor, and every entry at most
\* one detail per coin type; with parallel obligations to one creditor the single detail
\* holds the allocation for the combined amount.
C20_NoDuplicateEntries ==
    \A j \in 1..Len(entities) :
        HasData(entities[j].id) =>
            LET d == Data(entities[j].id)
                Unique(list) ==
                    /\ \A p \in 1..Len(list) : \A q \in 1..Len(list) :
                          list[p].owesTo = list[q].owesTo => p = q
                    /\ \A p \in 1..Len(list) :
                          \A x \in 1..Len(list[p].shortfalls) :
                          \A y \in 1..Len(list[p].shortfalls) :
                              list[p].shortfalls[x].coinType = list[p].shortfalls[y].coinType
                                  => x = y
            IN /\ Unique(d.shortfallsReceived)
               /\ Unique(d.shortfallsCaused)
               /\ \A m \in EntityIds : \A c \in Coins :
                     \A x \in DetailsOf(d.shortfallsCaused, m, c) :
                         x.amount = ProRataShare(entities[j], m, c)

\* number of obligations of the entity to creditor m that carry coin c
ParallelObligations(entity, m, c) ==
    Cardinality({k \in 1..Len(entity.obligations) :
                    /\ entity.obligations[k].to = m
                    /\ AssetAmount(entity.obligations[k].asset, c) > 0})

\* a debtor with two obligations in one coin type to the same creditor, and a second coin
\* type toward another creditor of the set
C20_Witness ==
    \E j \in 1..Len(entities) : \E m \in EntityIds : \E c \in Coins :
        /\ HasData(entities[j].id)
        /\ ParallelObligations(entities[j], m, c) = 2
        /\ Cardinality(DetailsOf(Data(entities[j].id).shortfallsCaused, m, c)) = 1
        /\ Cardinality(DetailsOf(Data(m).shortfallsReceived, entities[j].id, c)) = 1
        /\ Len(Data(m).shortfallsReceived) = 1

\* the fields of a record that the first pass computes and propagation does not touch
FirstPassFields(d) ==
    [entityId |-> d.entityId,
     totalAssets |-> d.totalAssets,
     totalLiabilities |-> d.totalLiabilities,
     totalAssetsUsd |-> d.totalAssetsUsd,
     totalLiabilitiesUsd |-> d.totalLiabilitiesUsd,
     shortfallUsd |-> d.shortfallUsd,
     swapUsedUsd |-> d.swapUsedUsd,
     swappedRepayments |-> d.swappedRepayments]

\* the counterparties named by the entries of a shortfallsReceived / shortfallsCaused array
Counterparties(list) == {list[j].owesTo : j \in 1..Len(list)}

\* what the propagation pass may have written so far: in every record the first-pass
\* fields keep their values; caused entries exist only on visited entities and name their
\* direct creditors; received entries and growth of the shortfall map exist only on direct
\* creditors of visited entities
PropagationFrame ==
    pc \in {"propagate", "done"} =>
        \A id \in EntityIds :
            /\ FirstPassFields(Data(id)) = FirstPassFields(FirstPassData(EntityGet(id)))
            /\ Data(id).shortfallsCaused # <<>> => id \in Visited
            /\ Counterparties(Data(id).shortfallsCaused) \subseteq Creditors(EntityGet(id))
            /\ \A dbt \in Counterparties(Data(id).shortfallsReceived) :
                  dbt \in Visited /\ Owes(dbt, id)
            /\ Data(id).shortfallsByCoin # OwnShortfalls(id) =>
                  \E dbt \in Visited : Owes(dbt, id)

\* C21: propagation changes only shortfallsReceived, shortfallsCaused and the per-type
\* shortfall map (the visited entity's shortfallsCaused, its direct creditors'
\* shortfallsReceived and map); totalAssets, totalLiabilities, the USD totals, shortfallUsd,
\* swapUsedUsd and swappedRepayments keep their first-pass values, and the input entities
\* and price map are never modified.
C21_PropagationWritesOnlyShortfallRecords ==
    /\ [] PropagationFrame
    /\ [][entities' = entities /\ priceMap' = priceMap]_vars

\* a creditor without a shortfall of its own whose map grew while its shortfallUsd
\* stayed 0, seen before it is itself visited
C21_Witness ==
    /\ pc = "propagate"
    /\ \E id \in EntityIds :
          /\ id \notin Visited
          /\ Data(id).shortfallUsd = Zero
          /\ OwnShortfalls(id) = <<>>
          /\ Data(id).shortfallsByCoin # <<>>
          /\ Data(id).shortfallsReceived # <<>>
          /\ Data(id).shortfallsCaused = <<>>

\* the per-type shortfall of an entity, and its recorded details, in a given entityData
ShortfallIn(ed, id, c) == MapGet(MapGet(ed, id, <<>>).shortfallsByCoin, c, Zero)
CausedIn(ed, debtor, creditor, c) ==
    DetailsOf(MapGet(ed, debtor, <<>>).shortfallsCaused, creditor, c)
ReceivedIn(ed, creditor, debtor, c) ==
    DetailsOf(MapGet(ed, creditor, <<>>).shortfallsReceived, debtor, c)

\* the step just taken visited an entity; JustVisited is that entity
VisitStep == pc = "propagate" /\ processingOrder' # processingOrder
JustVisited == processingOrder'[Len(processingOrder')]

\* C22 (PropagateSpec): in the propagation step of an entity, a shortfall coin type that
\* has no price is skipped without an error: no caused or received detail is created for
\* it and no creditor's shortfall map changes in it; the entity's priced shortfall coin
\* types are still distributed pro rata to the creditors of the set.
C22_UnpricedCoinSkipped ==
    [][VisitStep =>
          /\ pc' = "propagate" /\ error' = <<>>
          /\ \A c \in Coins :
                Gt(ShortfallIn(entityData, JustVisited, c), Zero) =>
                    IF c \notin DOMAIN priceMap
                    THEN \A m \in EntityIds :
                            /\ CausedIn(entityData', JustVisited, m, c) = {}
                            /\ ReceivedIn(entityData', m, JustVisited, c) = {}
                            /\ ShortfallIn(entityData', m, c) = ShortfallIn(entityData, m, c)
                    ELSE \A m \in EntityIds :
                            OwedToRaw(EntityGet(JustVisited), m, c) > 0 =>
                                \E x \in CausedIn(entityData', JustVisited, m, c) :
                                    x.amount =
                                        Div(Mul(ShortfallIn(entityData, JustVisited, c),
                                                Rat(OwedToRaw(EntityGet(JustVisited), m, c), 1)),
                                            Rat(OwedRaw(EntityGet(JustVisited), c), 1))]_vars

\* a visited debtor short in two coin types it owes to a creditor of the set: the unpriced
\* one left no detail, the priced one was distributed
C22_Witness ==
    /\ pc = "propagate"
    /\ \E e \in Visited : \E m \in EntityIds : \E c1 \in Coins : \E c2 \in Coins :
          /\ c1 \notin DOMAIN priceMap
          /\ Gt(ShortfallOf(e, c1), Zero)
          /\ OwedToRaw(EntityGet(e), m, c1) > 0
          /\ DetailsOf(Data(e).shortfallsCaused, m, c1) = {}
          /\ DetailsOf(Data(m).shortfallsReceived, e, c1) = {}
          /\ c2 \in DOMAIN priceMap
          /\ Gt(ShortfallOf(e, c2), Zero)
          /\ DetailsOf(Data(e).shortfallsCaused, m, c2) # {}

\* the obligations of the input whose creditor is not a key of the entities map
ExternalObligations ==
    UNION {{<<j, k>> : k \in {k \in 1..Len(entities[j].obligations) :
                                 entities[j].obligations[k].to \notin EntityIds}} :
           j \in 1..Len(entities)}

\* C23: an obligation to a creditor outside the entity set counts in full as a liability of
\* its debtor, adds no node or edge to the graph, never makes the run fail (a failed run
\* has a cycle among entities of the set or a missing price), and yields no
\* shortfallsReceived or shortfallsCaused entry; parallel obligations between two entities
\* of the set yield a single edge.
C23_ExternalCreditorsPermitted ==
    /\ \A k \in 1..Len(GraphEdges) :
          /\ GraphEdges[k][1] \in EntityIds /\ GraphEdges[k][2] \in EntityIds
          /\ \A l \in 1..Len(GraphEdges) : GraphEdges[k] = GraphEdges[l] => k = l
    /\ \A D \in EntityIds : \A C \in EntityIds :
          Owes(D, C) <=> \E k \in 1..Len(GraphEdges) : GraphEdges[k] = <<D, C>>
    /\ error = CycleError => CyclicInput
    /\ error \in PriceErrors => SomePriceMissing
    /\ pc = "failed" => error \in PriceErrors \cup {CycleError}
    /\ \A j \in 1..Len(entities) :
          HasData(entities[j].id) =>
              LET d == Data(entities[j].id)
              IN /\ \A c \in Coins :
                       BalanceOf(d.totalLiabilities, c)
                           = AmountToNumber(OwedRaw(entities[j], c), Decimals[c])
                 /\ d.totalLiabilitiesUsd
                       = SumCoins(LAMBDA c : Mul(AmountToNumber(OwedRaw(entities[j], c),
                                                                 Decimals[c]), Price(c)))
                 /\ Counterparties(d.shortfallsCaused) \subseteq EntityIds
                 /\ Counterparties(d.shortfallsReceived) \subseteq EntityIds

\* a returned run with a debtor short toward an external creditor only, nothing recorded
\* for it, next to a debtor with two parallel obligations to one creditor of the set
C23_Witness ==
    /\ Returned
    /\ ExternalObligations # {}
    /\ \E j \in 1..Len(entities) :
          /\ Creditors(entities[j]) \cap EntityIds = {}
          /\ Creditors(entities[j]) # {}
          /\ Gt(Data(entities[j].id).shortfallUsd, Zero)
          /\ Data(entities[j].id).shortfallsCaused = <<>>
          /\ entities[j].id \in InsolventSet
    /\ \E j \in 1..Len(entities) : \E m \in EntityIds : \E c \in Coins :
          ParallelObligations(entities[j], m, c) = 2


-----------------------------------------------------------------------------
\* C24: when the CLI action calls checkEntitySolvency, the price map has a price for
\* every coin type in the holdings or obligations of every entity of the map, the
\* supply pool and position entities added after the SAVs and strategies included
C24_PriceMapCoversEveryEntity == (pc = "first" /\ i = 0) => ~SomePriceMissing

-----------------------------------------------------------------------------
\* the coin types that are keys of the shortfall map of id
ShortfallCoins(id) == {Data(id).shortfallsByCoin[k].k : k \in 1..Len(Data(id).shortfallsByCoin)}

\* C25: once a run of checkEntitySolvency is in or past propagation, every coin type
\* of the entities has a price (the first pass would have thrown otherwise), hence
\* every key of every shortfall map has one and the missing-price skip of the
\* distribution loop is never taken
C25_ShortfallCoinsArePriced == pc \in {"propagate", "done"} => /\ ~SomePriceMissing
                                                               /\ \A id \in EntityIds : ShortfallCoins(id) \subseteq DOMAIN priceMap

\* propagation under a price table that lacks a coin type, the visited entity short
C25_Witness == /\ pc = "propagate"
               /\ DOMAIN priceMap # Coins
               /\ \E id \in Visited : ShortfallCoins(id) # {} /\ Creditors(EntityGet(id)) # {}

-----------------------------------------------------------------------------
\* C26: the cycle check runs only once the first pass has processed every entity, and
\* the first pass throws on a coin type without a price; so the cyclic-dependency error
\* is raised only with every entity processed and every coin priced, and a cyclic input
\* with an unpriced coin fails in the first pass with the missing-price error
C26_PriceErrorBeforeCycleCheck ==
    /\ error = CycleError => (Len(entityData) = Len(entities) /\ ~SomePriceMissing)
    /\ (CyclicInput /\ SomePriceMissing) =>
          /\ pc \in {"first", "failed"}
          /\ pc = "failed" => (error \in PriceErrors /\ Len(entityData) < Len(entities))

\* a cyclic input with an unpriced coin has failed, with the missing-price error
C26_Witness == CyclicInput /\ SomePriceMissing /\ pc = "failed" /\ error \in PriceErrors

-----------------------------------------------------------------------------
\* the record of id in the entityData map ed
DataIn(ed, id) == MapGet(ed, id, <<>>)

-----------------------------------------------------------------------------
\* entity id owes something, received a shortfall in coin c, and owes nothing in c
ReceivedUnowedCoin(id, c) ==
    /\ Len(EntityGet(id).obligations) > 0
    /\ c \notin OwedCoins(EntityGet(id))
    /\ Gt(TotalReceived(id, c), Zero)

\* C28: an entity with obligations that receives a shortfall in a coin type none of its
\* obligations is in keeps the whole amount in its shortfall map under that coin type,
\* passes none of it on (no caused entry of its own and no received entry of a creditor
\* names that coin type for it), and is listed insolvent in the result
C28_UnowedCoinShortfallStays ==
    \A id \in EntityIds : \A c \in Coins :
        (pc \in {"propagate", "done"} /\ ReceivedUnowedCoin(id, c)) =>
            /\ ShortfallOf(id, c) = TotalReceived(id, c)
            /\ \A cr \in EntityIds \cup {External} : Caused(id, cr, c) = Zero
            /\ \A cr \in EntityIds : Received(cr, id, c) = Zero
            /\ Returned => id \in InsolventSet

\* the run returned; an entity that was solvent on its own, owing two coin types, had
\* received a shortfall in a third from a debtor and was visited with it
C28_Witness ==
    /\ Returned
    /\ \E id \in EntityIds : \E c \in Coins :
          /\ ReceivedUnowedCoin(id, c)
          /\ ~Gt(FirstPassData(EntityGet(id)).shortfallUsd, Zero)
          /\ \E cr \in EntityIds : Owes(id, cr)

-----------------------------------------------------------------------------
\* the usdValue of the details of one entry, added up
DetailsUsd(entry) == SumRat([d \in 1..Len(entry.shortfalls) |-> entry.shortfalls[d].usdValue])

\* every entry of the list carries the sum of its details as its total
TotalsMatchDetails(list) == \A j \in 1..Len(list) : list[j].totalUsdValue = DetailsUsd(list[j])

\* C29: after every propagation step, the totalUsdValue of every entry of every
\* shortfallsReceived and shortfallsCaused list is the sum of the usdValue of its details
C29_EntryTotalIsSumOfDetails ==
    \A j \in 1..Len(entityData) :
        /\ TotalsMatchDetails(entityData[j].v.shortfallsReceived)
        /\ TotalsMatchDetails(entityData[j].v.shortfallsCaused)

\* a propagation step has left a received and a caused entry with two details each
C29_Witness ==
    /\ pc = "propagate"
    /\ \E j \in 1..Len(entityData) : \E k \in 1..Len(entityData[j].v.shortfallsReceived) :
          Len(entityData[j].v.shortfallsReceived[k].shortfalls) > 1
    /\ \E j \in 1..Len(entityData) : \E k \in 1..Len(entityData[j].v.shortfallsCaused) :
          /\ Len(entityData[j].v.shortfallsCaused[k].shortfalls) > 1
          /\ Gt(entityData[j].v.shortfallsCaused[k].totalUsdValue, Zero)

-----------------------------------------------------------------------------
\* no entry of any shortfall map is removed or made smaller by the step
ShortfallMapsOnlyGrow ==
    \A id \in EntityIds : \A c \in Coins :
        /\ MapHas(DataIn(entityData, id).shortfallsByCoin, c) => MapHas(DataIn(entityData', id).shortfallsByCoin, c)
        /\ Gte(ShortfallIn(entityData', id, c), ShortfallIn(entityData, id, c))

\* the ids the first pass found short: shortfallUsd above zero
FirstPassInsolvent == {id \in EntityIds : Gt(FirstPassData(EntityGet(id)).shortfallUsd, Zero)}

\* C30: no propagation step removes or decreases an entry of a shortfall map; every
\* entity the first pass found with shortfallUsd above zero is in the insolventEntities
\* of the returned result, which lists no id twice
C30_ShortfallsNeverShrink ==
    /\ [][pc = "propagate" => ShortfallMapsOnlyGrow]_vars
    /\ [](Returned => /\ FirstPassInsolvent \subseteq InsolventSet
                      /\ \A j, k \in 1..Len(Res.insolventEntities) : j # k => Res.insolventEntities[j] # Res.insolventEntities[k])

\* the run returned; an entity short after the first pass also had its map raised by a
\* debtor's shortfall, and is listed
C30_Witness ==
    /\ Returned
    /\ \E id \in FirstPassInsolvent : \E c \in Coins :
          /\ Gt(TotalReceived(id, c), Zero)
          /\ Gt(ShortfallOf(id, c), MapGet(OwnShortfalls(id), c, Zero))
          /\ id \in InsolventSet

====
